---- MODULE Spec2Model ----
(***************************************************************************)
(* Model of the orchestration engine of src/orchestrator.py.               *)
(*                                                                         *)
(* Texts are sequences of characters, one string per character, so that    *)
(* strip(), upper(), lower(), split(), startswith() and the "in" substring *)
(* test are computed as Python computes them.  A dict is a function whose  *)
(* DOMAIN is the set of keys present.  A rendered prompt (an f-string over *)
(* a fixed template) is the record of the values interpolated into the     *)
(* template.  Entropy scores are counted in hundredths (0.5 is 50).        *)
(***************************************************************************)
EXTENDS Integers, Sequences, FiniteSets, TLC

VARIABLES
  shared_state,  \* the dict every agent reads and folds into
  current_hash,  \* the head of the fingerprint chain
  cycle,         \* the loop variable of run_orchestration
  pc,            \* where run_orchestration stands
  tasks,         \* the reason_and_act coroutines being awaited
  snapshot,      \* _current_orchestration_state.json: the state dumped,
                 \* EmptyDict for no file, PartialDump for a broken write
  final_code,    \* the final answer printed after the loop
  faults,        \* ClientErrors raised so far (counted for MaxFaults)
  cube_calls,    \* history: invocations of the decision-maker
  invoked,       \* history: the roles started since the cycle's decision
  at_start,      \* history: shared_state when the running cycle started
  h              \* the direct application of a fold (FoldSpec only)

vars == <<shared_state, current_hash, cycle, pc, tasks, snapshot, final_code,
          faults, cube_calls, invoked, at_start, h>>

\* ---------------------------------------------------------------- bounds
\* ClientError outcomes the environment may produce in one run.
MaxFaults == 1
\* Leading cycles in which the answers are unrestricted; in the later
\* cycles the decision-maker answers COMPOSE or COMPLETE, the assembler
\* answers with a fenced block and every request is answered.
MaxVaried == 2

\* ------------------------------------------------------------ python str
\* A character up to U+00FF is the string of that one character; a character
\* beyond, which a TLA+ string cannot hold, is the string "U+" followed by
\* its code point in four hexadecimal digits ("U+0131" is the dotless i).
\* The alphabet of the model is U+0000..U+00FF, the characters str.upper()
\* or str.lower() maps to or from one of these, and the white space of
\* str.isspace().
UpperLetters == <<"A","B","C","D","E","F","G","H","I","J","K","L","M","N","O","P","Q","R","S","T","U","V","W","X","Y","Z">>
LowerLetters == <<"a","b","c","d","e","f","g","h","i","j","k","l","m","n","o","p","q","r","s","t","u","v","w","x","y","z">>
\* the backtick, which a TLA+ string cannot hold either
BT == "U+0060"

\* the characters str.strip() removes: U+0009..U+000D, U+001C..U+001F,
\* U+0020, U+0085, U+00A0 and the separators beyond U+00FF
Whitespace ==
  {"\t", "\n", "", "\f", "\r", "", "", "", "", " ", "", " ", "U+1680",
    "U+2000", "U+2001", "U+2002", "U+2003", "U+2004", "U+2005", "U+2006",
    "U+2007", "U+2008", "U+2009", "U+200A", "U+2028", "U+2029", "U+202F",
    "U+205F", "U+3000"}

\* c.upper() for the characters beyond ASCII that it changes
UpperTable ==
  {<<"µ", <<"U+039C">>>>, <<"ß", <<"S", "S">>>>, <<"à", <<"À">>>>,
    <<"á", <<"Á">>>>, <<"â", <<"Â">>>>, <<"ã", <<"Ã">>>>, <<"ä", <<"Ä">>>>,
    <<"å", <<"Å">>>>, <<"æ", <<"Æ">>>>, <<"ç", <<"Ç">>>>, <<"è", <<"È">>>>,
    <<"é", <<"É">>>>, <<"ê", <<"Ê">>>>, <<"ë", <<"Ë">>>>, <<"ì", <<"Ì">>>>,
    <<"í", <<"Í">>>>, <<"î", <<"Î">>>>, <<"ï", <<"Ï">>>>, <<"ð", <<"Ð">>>>,
    <<"ñ", <<"Ñ">>>>, <<"ò", <<"Ò">>>>, <<"ó", <<"Ó">>>>, <<"ô", <<"Ô">>>>,
    <<"õ", <<"Õ">>>>, <<"ö", <<"Ö">>>>, <<"ø", <<"Ø">>>>, <<"ù", <<"Ù">>>>,
    <<"ú", <<"Ú">>>>, <<"û", <<"Û">>>>, <<"ü", <<"Ü">>>>, <<"ý", <<"Ý">>>>,
    <<"þ", <<"Þ">>>>, <<"ÿ", <<"U+0178">>>>, <<"U+0131", <<"I">>>>,
    <<"U+0149", <<"U+02BC", "N">>>>, <<"U+017F", <<"S">>>>,
    <<"U+01F0", <<"J", "U+030C">>>>, <<"U+03BC", <<"U+039C">>>>,
    <<"U+1E96", <<"H", "U+0331">>>>, <<"U+1E97", <<"T", "U+0308">>>>,
    <<"U+1E98", <<"W", "U+030A">>>>, <<"U+1E99", <<"Y", "U+030A">>>>,
    <<"U+1E9A", <<"A", "U+02BE">>>>, <<"U+FB00", <<"F", "F">>>>,
    <<"U+FB01", <<"F", "I">>>>, <<"U+FB02", <<"F", "L">>>>,
    <<"U+FB03", <<"F", "F", "I">>>>, <<"U+FB04", <<"F", "F", "L">>>>,
    <<"U+FB05", <<"S", "T">>>>, <<"U+FB06", <<"S", "T">>>>}

\* c.lower() for the characters beyond ASCII that it changes
LowerTable ==
  {<<"À", <<"à">>>>, <<"Á", <<"á">>>>, <<"Â", <<"â">>>>, <<"Ã", <<"ã">>>>,
    <<"Ä", <<"ä">>>>, <<"Å", <<"å">>>>, <<"Æ", <<"æ">>>>, <<"Ç", <<"ç">>>>,
    <<"È", <<"è">>>>, <<"É", <<"é">>>>, <<"Ê", <<"ê">>>>, <<"Ë", <<"ë">>>>,
    <<"Ì", <<"ì">>>>, <<"Í", <<"í">>>>, <<"Î", <<"î">>>>, <<"Ï", <<"ï">>>>,
    <<"Ð", <<"ð">>>>, <<"Ñ", <<"ñ">>>>, <<"Ò", <<"ò">>>>, <<"Ó", <<"ó">>>>,
    <<"Ô", <<"ô">>>>, <<"Õ", <<"õ">>>>, <<"Ö", <<"ö">>>>, <<"Ø", <<"ø">>>>,
    <<"Ù", <<"ù">>>>, <<"Ú", <<"ú">>>>, <<"Û", <<"û">>>>, <<"Ü", <<"ü">>>>,
    <<"Ý", <<"ý">>>>, <<"Þ", <<"þ">>>>, <<"U+0130", <<"i", "U+0307">>>>,
    <<"U+0178", <<"ÿ">>>>, <<"U+039C", <<"U+03BC">>>>, <<"U+1E9E", <<"ß">>>>,
    <<"U+212A", <<"k">>>>, <<"U+212B", <<"å">>>>}

\* the two mappings as functions of the characters they change
UpperMap ==
  [c \in {LowerLetters[i] : i \in 1..26} \cup {p[1] : p \in UpperTable} |->
     IF \E i \in 1..26 : LowerLetters[i] = c
     THEN <<UpperLetters[CHOOSE i \in 1..26 : LowerLetters[i] = c]>>
     ELSE (CHOOSE p \in UpperTable : p[1] = c)[2]]
LowerMap ==
  [c \in {UpperLetters[i] : i \in 1..26} \cup {p[1] : p \in LowerTable} |->
     IF \E i \in 1..26 : UpperLetters[i] = c
     THEN <<LowerLetters[CHOOSE i \in 1..26 : UpperLetters[i] = c]>>
     ELSE (CHOOSE p \in LowerTable : p[1] = c)[2]]

\* c.upper() and c.lower() of one character: a text, which for some
\* characters is longer than one character
UpperChar(c) == IF c \in DOMAIN UpperMap THEN UpperMap[c] ELSE <<c>>
LowerChar(c) == IF c \in DOMAIN LowerMap THEN LowerMap[c] ELSE <<c>>
\* str.upper(), str.lower()
\* the texts of a sequence of texts, joined
RECURSIVE Joined(_)
Joined(texts) ==
  IF texts = <<>> THEN <<>> ELSE Head(texts) \o Joined(Tail(texts))
\* every text of the sequence is one character long
AllSingle(texts) == \A i \in 1..Len(texts) : Len(texts[i]) = 1
Upper(s) ==
  LET mapped == [i \in 1..Len(s) |-> UpperChar(s[i])]
  IN  IF AllSingle(mapped) THEN [i \in 1..Len(s) |-> mapped[i][1]]
      ELSE Joined(mapped)
Lower(s) ==
  LET mapped == [i \in 1..Len(s) |-> LowerChar(s[i])]
  IN  IF AllSingle(mapped) THEN [i \in 1..Len(s) |-> mapped[i][1]]
      ELSE Joined(mapped)

\* str.strip()
Strip(s) ==
  LET keep == {i \in 1..Len(s) : s[i] \notin Whitespace}
  IN  IF keep = {} THEN <<>>
      ELSE SubSeq(s, CHOOSE i \in keep : \A j \in keep : i <= j,
                     CHOOSE i \in keep : \A j \in keep : j <= i)

\* the positions at which sub occurs in s
Occurrences(sub, s) ==
  {i \in 1..(Len(s) - Len(sub) + 1) : SubSeq(s, i, i + Len(sub) - 1) = sub}
\* sub in s
Contains(sub, s) == Occurrences(sub, s) # {}
\* s.startswith(prefix)
StartsWith(s, prefix) ==
  Len(prefix) <= Len(s) /\ SubSeq(s, 1, Len(prefix)) = prefix

\* s.split(sep), sep non-empty: the pieces between the occurrences of sep,
\* found left to right without overlap
RECURSIVE Split(_, _)
Split(s, sep) ==
  IF ~Contains(sep, s) THEN <<s>>
  ELSE LET i == CHOOSE k \in Occurrences(sep, s) :
                   \A j \in Occurrences(sep, s) : k <= j
       IN  <<SubSeq(s, 1, i - 1)>> \o Split(SubSeq(s, i + Len(sep), Len(s)), sep)

\* str(n) for n >= 0
Digits == <<"0","1","2","3","4","5","6","7","8","9">>
RECURSIVE IntToStr(_)
IntToStr(n) ==
  IF n < 10 THEN <<Digits[n + 1]>>
  ELSE IntToStr(n \div 10) \o <<Digits[(n % 10) + 1]>>

\* ------------------------------------------------------------ python dict
Has(d, k) == k \in DOMAIN d
\* d.get(k, default)
Get(d, k, default) == IF k \in DOMAIN d THEN d[k] ELSE default
\* d[k] = v
Put(d, k, v) == [x \in (DOMAIN d) \cup {k} |-> IF x = k THEN v ELSE d[x]]
EmptyDict == [x \in {} |-> 0]
\* f"{None}"
NoneText == <<"N","o","n","e">>

\* ----------------------------------------------------------- configuration
AgentRoles == {"cube", "wave", "loop", "core", "work", "code", "line", "coin"}

\* AGENT_MODELS.get(role, "mistral")
ModelOf(role) ==
  CASE role = "cube" -> <<"c","u","b","e">>
    [] role = "core" -> <<"c","o","r","e">>
    [] role = "loop" -> <<"l","o","o","p">>
    [] role = "wave" -> <<"p","r","o","m","i","s","e","r">>
    [] role = "line" -> <<"l","i","n","e">>
    [] role = "coin" -> <<"c","o","i","n">>
    [] role = "code" -> <<"c","o","d","e">>
    [] role = "work" -> <<"w","o","r","k">>
    [] OTHER -> <<"m","i","s","t","r","a","l">>

\* the name each agent is constructed with in run_orchestration
AgentName(role) ==
  CASE role = "cube" -> <<"C","u","b","e","O","r","c","h","e","s","t","r","a","t","o","r">>
    [] role = "wave" -> <<"W","a","v","e","P","r","o","m","i","s","e","r">>
    [] role = "loop" -> <<"L","o","o","p","A","d","v","i","s","o","r">>
    [] role = "core" -> <<"C","o","r","e","E","x","e","c","u","t","o","r">>
    [] role = "work" -> <<"W","o","r","k","V","a","l","i","d","a","t","o","r">>
    [] role = "code" -> <<"C","o","d","e","C","o","m","p","o","s","e","r">>
    [] role = "line" -> <<"L","i","n","e","R","e","s","o","u","r","c","e","M","a","n","a","g","e","r">>
    [] role = "coin" -> <<"C","o","i","n","R","e","q","u","e","s","t","S","e","c","u","r","e","r">>

\* -------------------------------------------------------------- hashing
\* A SHA-256 digest is represented by the text it was computed from, so
\* that two digests are equal exactly when their texts are: the prompt for
\* the genesis digest, and for a chained digest the three fields of
\* f"{origin_hash}:{agent_name}:{thought}", the origin digest entering with
\* all it was computed from.
create_genesis_hash(prompt) == [genesis |-> prompt]

rehash_fragment(origin_hash, agent_name, thought) ==
  [origin |-> origin_hash, agent |-> agent_name, thought |-> thought]

\* ---------------------------------------------------------------- entropy
PenaltyIntegrity == 50
PenaltyScopeManaged == 20
PenaltyScopeUnmanaged == 40
PenaltyNoPlan == 100
PenaltyInvalidChunk == 70
PenaltyNoCriteria == 80
PenaltyRefine == 10
PenaltyReplan == 30

TextPLAN == <<"P","L","A","N">>
TextEXECUTE == <<"E","X","E","C","U","T","E">>
TextVALIDATE == <<"V","A","L","I","D","A","T","E">>
TextREFINE == <<"R","E","F","I","N","E">>
TextCOMPOSE == <<"C","O","M","P","O","S","E">>
TextCOMPLETE == <<"C","O","M","P","L","E","T","E">>
TextVALID == <<"V","A","L","I","D">>
TextINVALID == <<"I","N","V","A","L","I","D">>

\* sum(1 for status in validations.values() if status.startswith('INVALID'))
InvalidKeys(validations) ==
  {k \in DOMAIN validations : StartsWith(validations[k], TextINVALID)}
ValidKeys(validations) ==
  {k \in DOMAIN validations : validations[k] = TextVALID}

\* mutant: invalid chunks are charged once, however many there are
calculate_entropy_InvalidOnce(state) ==
  LET prompt_integrity == Get(state, "prompt_integrity", <<>>)
      resource_management == Lower(Get(state, "resource_management", <<>>))
      plan == Get(state, "plan", <<>>)
      validations == Get(state, "validations", EmptyDict)
      success_criteria == Get(state, "success_criteria", <<>>)
      current_action == Get(state, "current_action", <<>>)
      e1 == IF ~Contains(<<"I","N","T","E","G","R","I","T","Y"," ","O","K">>, prompt_integrity)
            THEN PenaltyIntegrity ELSE 0
      e2 == IF Contains(<<"c","o","m","p","l","e","x","i","t","y">>, resource_management)
               \/ Contains(<<"s","c","o","p","e">>, resource_management)
            THEN IF Contains(<<"r","e","d","u","c","e">>, resource_management)
                    \/ Contains(<<"m","a","n","a","g","e">>, resource_management)
                 THEN PenaltyScopeManaged ELSE PenaltyScopeUnmanaged
            ELSE 0
      e3 == IF Len(plan) = 0 THEN PenaltyNoPlan ELSE 0
      e4 == IF InvalidKeys(validations) # {} THEN PenaltyInvalidChunk ELSE 0
      e5 == IF Len(success_criteria) = 0 THEN PenaltyNoCriteria ELSE 0
      e6 == IF current_action = TextREFINE THEN PenaltyRefine
            ELSE IF current_action = TextPLAN
                    /\ Cardinality(DOMAIN Get(state, "code_chunks", EmptyDict)) > 0
                 THEN PenaltyReplan ELSE 0
  IN  e1 + e2 + e3 + e4 + e5 + e6

\* calculate_entropy, in hundredths
calculate_entropy(state) ==
  LET prompt_integrity == Get(state, "prompt_integrity", <<>>)
      resource_management == Lower(Get(state, "resource_management", <<>>))
      plan == Get(state, "plan", <<>>)
      validations == Get(state, "validations", EmptyDict)
      success_criteria == Get(state, "success_criteria", <<>>)
      current_action == Get(state, "current_action", <<>>)
      e1 == IF ~Contains(<<"I","N","T","E","G","R","I","T","Y"," ","O","K">>, prompt_integrity)
            THEN PenaltyIntegrity ELSE 0
      e2 == IF Contains(<<"c","o","m","p","l","e","x","i","t","y">>, resource_management)
               \/ Contains(<<"s","c","o","p","e">>, resource_management)
            THEN IF Contains(<<"r","e","d","u","c","e">>, resource_management)
                    \/ Contains(<<"m","a","n","a","g","e">>, resource_management)
                 THEN PenaltyScopeManaged ELSE PenaltyScopeUnmanaged
            ELSE 0
      e3 == IF Len(plan) = 0 THEN PenaltyNoPlan ELSE 0
      e4 == Cardinality(InvalidKeys(validations)) * PenaltyInvalidChunk
      e5 == IF Len(success_criteria) = 0 THEN PenaltyNoCriteria ELSE 0
      e6 == IF current_action = TextREFINE THEN PenaltyRefine
            ELSE IF current_action = TextPLAN
                    /\ Cardinality(DOMAIN Get(state, "code_chunks", EmptyDict)) > 0
                 THEN PenaltyReplan ELSE 0
  IN  e1 + e2 + e3 + e4 + e5 + e6

\* ------------------------------------------------------------------ roles
ActionWords ==
  {TextPLAN, TextEXECUTE, TextVALIDATE, TextREFINE, TextCOMPOSE, TextCOMPLETE}
Fence == <<BT,BT,BT,"p","y","t","h","o","n">>
Ticks == <<BT,BT,BT>>

\* output.split("```python")[1].split("```")[0].strip()
ExtractFenced(output) == Strip(Split(Split(output, Fence)[2], Ticks)[1])

\* f"chunk_{n}"
ChunkId(n) == <<"c","h","u","n","k","_">> \o IntToStr(n)

\* Cube._create_meta_prompt
CubePrompt(base_prompt, state) ==
  [goal |-> base_prompt,
   action |-> Get(state, "current_action", <<"I","N","I","T">>),
   entropy |-> Get(state, "current_entropy_score", 0),
   plan |-> Get(state, "plan", <<"N","o","n","e"," ","y","e","t",".">>),
   criteria |-> Get(state, "success_criteria", <<"N","o","n","e"," ","y","e","t",".">>),
   valid |-> Cardinality(ValidKeys(Get(state, "validations", EmptyDict))),
   invalid |-> Cardinality(InvalidKeys(Get(state, "validations", EmptyDict))),
   advice |-> Get(state, "advice", <<"N","o","n","e",".">>),
   integrity |-> Get(state, "prompt_integrity", <<"N","o","t"," ","c","h","e","c","k","e","d",".">>),
   resource |-> Get(state, "resource_management", <<"N","o","t"," ","a","s","s","e","s","s","e","d",".">>)]

\* mutant: the fallback to PLAN is missing
CubeFold_NoClamp(output, state) ==
  Put(state, "current_action", Upper(Strip(output)))

\* Cube._process_output
CubeFold(output, state) ==
  LET action == Upper(Strip(output))
  IN  Put(state, "current_action",
          IF action \notin ActionWords THEN TextPLAN ELSE action)

\* Wave._create_meta_prompt
WavePrompt(base_prompt, state) ==
  [goal |-> base_prompt,
   criteria |-> Get(state, "success_criteria", NoneText)]

\* mutant: the goal-definer's fold also overwrites advice
WaveFold_SetsAdvice(output, state) ==
  Put(Put(state, "success_criteria", output), "advice", output)

\* Wave._process_output
WaveFold(output, state) == Put(state, "success_criteria", output)

\* Core._create_meta_prompt
CorePrompt(base_prompt, state) ==
  [goal |-> base_prompt,
   criteria |-> Get(state, "success_criteria", NoneText),
   plan |-> Get(state, "plan", NoneText),
   existing |-> DOMAIN Get(state, "code_chunks", EmptyDict),
   advice |-> Get(state, "advice", NoneText)]

\* mutant: the chunk is numbered len(code_chunks), not len(code_chunks) + 1
CoreFold_OffByOne(output, state) ==
  IF Contains(Fence, output)
  THEN LET code_chunks == Get(state, "code_chunks", EmptyDict)
           chunk_id == ChunkId(Cardinality(DOMAIN code_chunks))
       IN  Put(Put(state, "code_chunks",
                   Put(code_chunks, chunk_id, ExtractFenced(output))),
               "last_chunk_id", chunk_id)
  ELSE state

\* mutant: last_chunk_id is assigned outside the if, fence or no fence
CoreFold_DanglingLast(output, state) ==
  LET code_chunks == Get(state, "code_chunks", EmptyDict)
      chunk_id == ChunkId(Cardinality(DOMAIN code_chunks) + 1)
      st == IF Contains(Fence, output)
            THEN Put(state, "code_chunks",
                     Put(code_chunks, chunk_id, ExtractFenced(output)))
            ELSE state
  IN  Put(st, "last_chunk_id", chunk_id)

\* Core._process_output
CoreFold(output, state) ==
  IF Contains(Fence, output)
  THEN LET code_chunks == Get(state, "code_chunks", EmptyDict)
           chunk_id == ChunkId(Cardinality(DOMAIN code_chunks) + 1)
       IN  Put(Put(state, "code_chunks",
                   Put(code_chunks, chunk_id, ExtractFenced(output))),
               "last_chunk_id", chunk_id)
  ELSE state

\* Work._create_meta_prompt
WorkPrompt(base_prompt, state) ==
  LET last_chunk_id == Get(state, "last_chunk_id", NoneText)
  IN  [last |-> last_chunk_id,
       chunk |-> Get(Get(state, "code_chunks", EmptyDict), last_chunk_id,
                     <<"N","o"," ","n","e","w"," ","c","h","u","n","k"," ","t","o"," ","v","a","l","i","d","a","t","e",".">>),
       criteria |-> Get(state, "success_criteria", NoneText)]

\* mutant: the verdict is recorded for the first chunk, not for the last
WorkFold_OldestChunk(output, state) ==
  LET st == Put(state, "validations", Get(state, "validations", EmptyDict))
  IN  IF Has(st, "last_chunk_id") /\ Len(st["last_chunk_id"]) > 0
      THEN LET last_chunk_id == ChunkId(1)
           IN  IF StartsWith(output, TextVALID)
               THEN Put(st, "validations",
                        Put(st["validations"], last_chunk_id, TextVALID))
               ELSE Put(Put(st, "validations",
                            Put(st["validations"], last_chunk_id,
                                <<"I","N","V","A","L","I","D"," ","-"," ">> \o output)),
                        "advice",
                        <<"V","a","l","i","d","a","t","i","o","n"," ","f","a","i","l","e","d"," ","f","o","r"," ">> \o last_chunk_id
                          \o <<":"," ">> \o output)
      ELSE st

\* Work._process_output
WorkFold(output, state) ==
  LET st == Put(state, "validations", Get(state, "validations", EmptyDict))
  IN  IF Has(st, "last_chunk_id") /\ Len(st["last_chunk_id"]) > 0
      THEN LET last_chunk_id == st["last_chunk_id"]
           IN  IF StartsWith(output, TextVALID)
               THEN Put(st, "validations",
                        Put(st["validations"], last_chunk_id, TextVALID))
               ELSE Put(Put(st, "validations",
                            Put(st["validations"], last_chunk_id,
                                <<"I","N","V","A","L","I","D"," ","-"," ">> \o output)),
                        "advice",
                        <<"V","a","l","i","d","a","t","i","o","n"," ","f","a","i","l","e","d"," ","f","o","r"," ">> \o last_chunk_id
                          \o <<":"," ">> \o output)
      ELSE st

\* Loop._create_meta_prompt
LoopPrompt(base_prompt, state) ==
  [goal |-> base_prompt,
   plan |-> Get(state, "plan", <<"N","o","t"," ","d","e","f","i","n","e","d"," ","y","e","t",".">>),
   validated |-> ValidKeys(Get(state, "validations", EmptyDict)),
   failed |-> InvalidKeys(Get(state, "validations", EmptyDict)),
   summary |-> [k \in (DOMAIN state) \ {"code_chunks", "validations"}
                  |-> state[k]]]

\* Loop._process_output
LoopFold(output, state) ==
  LET st == IF ~Has(state, "plan") \/ Contains(<<"r","e","f","i","n","e","m","e","n","t">>, Lower(output))
            THEN Put(state, "plan", output) ELSE state
  IN  Put(st, "advice", output)

\* mutant: validations.get(k, 'VALID'), a chunk without verdict passes
ComposableChunks_DefaultValid(state) ==
  LET code_chunks == Get(state, "code_chunks", EmptyDict)
      validations == Get(state, "validations", EmptyDict)
  IN  [k \in {c \in DOMAIN code_chunks :
                Has(validations, c) => validations[c] = TextVALID}
         |-> code_chunks[k]]

\* the chunks Code._create_meta_prompt hands to the composer
ComposableChunks(state) ==
  LET code_chunks == Get(state, "code_chunks", EmptyDict)
      validations == Get(state, "validations", EmptyDict)
  IN  [k \in {c \in DOMAIN code_chunks :
                Has(validations, c) /\ validations[c] = TextVALID}
         |-> code_chunks[k]]

\* Code._create_meta_prompt
CodePrompt(base_prompt, state) ==
  [chunks |-> ComposableChunks(state),
   criteria |-> Get(state, "success_criteria", NoneText)]

\* mutant: an output without the fence is stored as it is
CodeFold_StoreRaw(output, state) ==
  IF Contains(Fence, output)
  THEN Put(state, "final_script", ExtractFenced(output))
  ELSE Put(state, "final_script", Strip(output))

\* Code._process_output
CodeFold(output, state) ==
  IF Contains(Fence, output)
  THEN Put(state, "final_script", ExtractFenced(output))
  ELSE state

\* Line._create_meta_prompt
LinePrompt(base_prompt, state) == [goal |-> base_prompt, state |-> state]

\* Line._process_output
LineFold(output, state) == Put(state, "resource_management", output)

\* Coin._create_meta_prompt
CoinPrompt(base_prompt, state) == [goal |-> base_prompt, state |-> state]

\* Coin._process_output
CoinFold(output, state) == Put(state, "prompt_integrity", output)

\* self._create_meta_prompt, dispatched on the agent's class
Render(role, base_prompt, state) ==
  CASE role = "cube" -> CubePrompt(base_prompt, state)
    [] role = "wave" -> WavePrompt(base_prompt, state)
    [] role = "core" -> CorePrompt(base_prompt, state)
    [] role = "work" -> WorkPrompt(base_prompt, state)
    [] role = "loop" -> LoopPrompt(base_prompt, state)
    [] role = "code" -> CodePrompt(base_prompt, state)
    [] role = "line" -> LinePrompt(base_prompt, state)
    [] role = "coin" -> CoinPrompt(base_prompt, state)

\* self._process_output, dispatched on the agent's class
Fold(role, output, state) ==
  CASE role = "cube" -> CubeFold(output, state)
    [] role = "wave" -> WaveFold(output, state)
    [] role = "core" -> CoreFold(output, state)
    [] role = "work" -> WorkFold(output, state)
    [] role = "loop" -> LoopFold(output, state)
    [] role = "code" -> CodeFold(output, state)
    [] role = "line" -> LineFold(output, state)
    [] role = "coin" -> CoinFold(output, state)

\* ------------------------------------------------------------ environment
\* sys.argv[1], the request the run is started with
initial_prompt == <<"f","e","t","c","h">>

\* data.get("response", "") of a successful call, per role, before
\* Agent.reason_and_act strips it
Responses(role) ==
  CASE role = "cube" -> {TextPLAN, TextEXECUTE, TextVALIDATE, TextREFINE,
                         TextCOMPOSE, TextCOMPLETE, <<"b","a","n","a","n","a">>,
                         <<" ","e","x","e","c","u","t","e","\n">>}
    [] role = "wave" -> {<<"1","."," ","o","k">>}
    [] role = "loop" -> {<<"R","e","f","i","n","e","m","e","n","t",":"," ","r","e","t","r","y">>}
    [] role = "line" -> {<<"R","E","S","O","U","R","C","E"," ","M","A","N","A","G","E","M","E","N","T"," ","O","K">>}
    [] role = "coin" -> {<<"I","N","T","E","G","R","I","T","Y"," ","O","K">>}
    [] role = "core" -> {<<BT,BT,BT,"p","y","t","h","o","n","\n","x","\n",BT,BT,BT>>, <<"s","o","r","r","y">>}
    [] role = "work" -> {TextVALID, <<"I","N","V","A","L","I","D",":"," ","b","a","d">>}
    [] role = "code" -> {<<BT,BT,BT,"p","y","t","h","o","n","\n","r","u","n","\n",BT,BT,BT>>, <<"s","o","r","r","y">>}

\* how the awaited request of Agent.reason_and_act can end where the code
\* handles it: with a response or with an aiohttp.ClientError
Outcomes(role) ==
  {[kind |-> "ok", text |-> r] : r \in Responses(role)}
    \cup {[kind |-> "client_error", text |-> <<>>]}

\* f"Error: Could not contact Ollama model '{self.model}'. {e}"
ErrorText(role) ==
  <<"E","r","r","o","r",":"," ","C","o","u","l","d"," ","n","o","t"," ","c","o","n","t","a","c","t"," ","O","l","l","a","m","a"," ","m","o","d","e","l"," ","'">> \o ModelOf(role)
    \o <<"'","."," ">> \o <<"r","e","f","u","s","e","d">>

Placeholder == <<"#"," ","C","o","m","p","o","s","i","t","i","o","n"," ","f","a","i","l","e","d","."," ","N","o"," ","f","i","n","a","l"," ","s","c","r","i","p","t"," ","w","a","s"," ","g","e","n","e","r","a","t","e","d",".">>

\* ----------------------------------------------------------------- engine
max_cycles == 10

\* the coroutine agents[role].reason_and_act(initial_prompt, origin, shared_state)
NewTask(role, origin) ==
  [role |-> role, origin |-> origin, st |-> "new",
   hash |-> <<>>, output |-> <<>>]

\* Agent.reason_and_act up to the await of the request: steps 1 and 2
Begin(t, state) ==
  [t EXCEPT !.st = "waiting",
            !.hash = rehash_fragment(t.origin, AgentName(t.role),
                                     Render(t.role, initial_prompt, state))]

\* response_text of Agent.reason_and_act
ResponseText(role, outcome) ==
  IF outcome.kind = "ok" THEN Strip(outcome.text) ELSE ErrorText(role)

\* mutant: the PLAN branch lacks the integrity auditor
TasksFor_NoCoin(action, state) ==
  CASE action = TextPLAN -> <<"wave", "loop", "line">>
    [] action = TextEXECUTE -> <<"core">>
    [] action = TextVALIDATE ->
         IF Len(Get(state, "last_chunk_id", <<>>)) > 0
         THEN <<"work">> ELSE <<>>
    [] action = TextREFINE -> <<"loop">>
    [] action = TextCOMPOSE -> <<"code">>
    [] OTHER -> <<>>

\* mutant: VALIDATE runs the validator whether or not a chunk is pending
TasksFor_AlwaysValidate(action, state) ==
  CASE action = TextPLAN -> <<"wave", "loop", "line", "coin">>
    [] action = TextEXECUTE -> <<"core">>
    [] action = TextVALIDATE -> <<"work">>
    [] action = TextREFINE -> <<"loop">>
    [] action = TextCOMPOSE -> <<"code">>
    [] OTHER -> <<>>

\* mutant: the composer is run only below an entropy threshold
TasksFor_Gated(action, state) ==
  CASE action = TextPLAN -> <<"wave", "loop", "line", "coin">>
    [] action = TextEXECUTE -> <<"core">>
    [] action = TextVALIDATE ->
         IF Len(Get(state, "last_chunk_id", <<>>)) > 0
         THEN <<"work">> ELSE <<>>
    [] action = TextREFINE -> <<"loop">>
    [] action = TextCOMPOSE ->
         IF Get(state, "current_entropy_score", 0) < PenaltyReplan
         THEN <<"code">> ELSE <<>>
    [] OTHER -> <<>>

\* the roles run_orchestration puts in tasks_to_run for an action
TasksFor(action, state) ==
  CASE action = TextPLAN -> <<"wave", "loop", "line", "coin">>
    [] action = TextEXECUTE -> <<"core">>
    [] action = TextVALIDATE ->
         IF Len(Get(state, "last_chunk_id", <<>>)) > 0
         THEN <<"work">> ELSE <<>>
    [] action = TextREFINE -> <<"loop">>
    [] action = TextCOMPOSE -> <<"code">>
    [] OTHER -> <<>>

\* mutant: the break on COMPLETE is missing
AfterDecision_NoBreak(action, roles) ==
  IF roles = <<>> THEN "continue" ELSE "gather"

\* what the loop body does with the decision: break on COMPLETE, continue
\* when there is nothing to run, otherwise await the gather
AfterDecision(action, roles) ==
  IF action = TextCOMPLETE THEN "break"
  ELSE IF roles = <<>> THEN "continue"
  ELSE "gather"

\* the print of the final answer after the loop
FinalCode(state) == Get(state, "final_script", Placeholder)

\* the environment's side of a call: which outcomes the bounds allow
Allowed(role, outcome) ==
  /\ outcome.kind = "client_error"
       => (faults < MaxFaults /\ cycle <= MaxVaried)
  /\ (role = "cube" /\ outcome.kind = "ok" /\ cycle > MaxVaried)
       => outcome.text \in {TextCOMPOSE, TextCOMPLETE}
  /\ (role = "code" /\ outcome.kind = "ok" /\ cycle > MaxVaried)
       => Contains(Fence, outcome.text)

Init ==
  /\ shared_state = [status |-> <<"S","T","A","R","T","I","N","G">>,
                     code_chunks |-> EmptyDict,
                     validations |-> EmptyDict]
  /\ current_hash = create_genesis_hash(initial_prompt)
  /\ cycle = 1
  /\ pc = "loop"
  /\ tasks = <<>>
  /\ snapshot = EmptyDict
  /\ final_code = <<>>
  /\ faults = 0
  /\ cube_calls = 0
  /\ invoked = <<>>
  /\ at_start = EmptyDict
  /\ h = <<>>

\* top of the for loop with cycles left: the entropy is stored and the
\* decision-maker's reason_and_act runs up to its request
CycleStart ==
  /\ pc = "loop"
  /\ cycle <= max_cycles
  /\ LET st == Put(shared_state, "current_entropy_score",
                   calculate_entropy(shared_state))
     IN  /\ shared_state' = st
         /\ tasks' = <<Begin(NewTask("cube", current_hash), st)>>
  /\ cube_calls' = cube_calls + 1
  /\ invoked' = <<>>
  /\ at_start' = shared_state
  /\ pc' = "decide"
  /\ UNCHANGED <<current_hash, cycle, snapshot, final_code, faults, h>>

\* range(1, max_cycles + 1) is exhausted: the final answer is printed
LoopExit ==
  /\ pc = "loop"
  /\ cycle > max_cycles
  /\ final_code' = FinalCode(shared_state)
  /\ pc' = "done"
  /\ UNCHANGED <<shared_state, current_hash, cycle, tasks, snapshot, faults,
                 cube_calls, invoked, at_start, h>>

\* the decision-maker's request ends: its output is folded, the hash is
\* chained, and the action either ends the loop (the final answer is
\* printed), is skipped for want of tasks, or fans out into asyncio.gather
CubeReturn ==
  /\ pc = "decide"
  /\ \E outcome \in Outcomes("cube") :
       /\ Allowed("cube", outcome)
       /\ LET st == Fold("cube", ResponseText("cube", outcome), shared_state)
              action == Get(st, "current_action", TextPLAN)
              head == tasks[1].hash
              roles == TasksFor(action, st)
              todo == AfterDecision(action, roles)
          IN  /\ shared_state' = st
              /\ current_hash' = head
              /\ faults' = IF outcome.kind = "client_error"
                           THEN faults + 1 ELSE faults
              /\ pc' = CASE todo = "break" -> "done"
                         [] todo = "continue" -> "loop"
                         [] OTHER -> "gather"
              /\ cycle' = IF todo = "continue" THEN cycle + 1 ELSE cycle
              /\ final_code' = IF todo = "break" THEN FinalCode(st)
                               ELSE final_code
              /\ tasks' = IF todo = "gather"
                          THEN [i \in 1..Len(roles) |-> NewTask(roles[i], head)]
                          ELSE <<>>
  /\ UNCHANGED <<snapshot, cube_calls, invoked, at_start, h>>

\* a task of the gather gets its first turn on the event loop, in the order
\* the tasks were passed: it renders, hashes and issues its request.  The
\* task waits when the request suspends it, as every request that goes out
\* to the network does.  A request that fails with a ClientError before it
\* has suspended the task (whether one can is up to the HTTP library)
\* leaves the task running: it folds the error text and returns within the
\* same turn, before the next task renders.
TaskStart ==
  /\ pc = "gather"
  /\ \E i \in 1..Len(tasks) :
       /\ tasks[i].st = "new"
       /\ \A j \in 1..(i - 1) : tasks[j].st # "new"
       /\ invoked' = Append(invoked, tasks[i].role)
       /\ LET started == Begin(tasks[i], shared_state)
          IN  \/ /\ tasks' = [tasks EXCEPT ![i] = started]
                 /\ UNCHANGED <<shared_state, faults>>
              \/ \E outcome \in Outcomes(tasks[i].role) :
                   /\ outcome.kind = "client_error"
                   /\ Allowed(tasks[i].role, outcome)
                   /\ LET text == ResponseText(tasks[i].role, outcome)
                      IN  /\ shared_state' =
                                Fold(tasks[i].role, text, shared_state)
                          /\ tasks' =
                                [tasks EXCEPT ![i] =
                                   [started EXCEPT !.st = "done",
                                                   !.output = text]]
                   /\ faults' = IF outcome.kind = "client_error"
                                THEN faults + 1 ELSE faults
  /\ UNCHANGED <<current_hash, cycle, pc, snapshot, final_code, cube_calls,
                 at_start, h>>

\* the request of a waiting task ends with a response or a ClientError: the
\* output is folded into the shared state and the task returns its result.
\* A task that was suspended is not resumed before every task of the gather
\* has had its first turn: the first turns are queued on the event loop
\* ahead of any wake-up.
TaskReturn ==
  /\ pc = "gather"
  /\ \A j \in 1..Len(tasks) : tasks[j].st # "new"
  /\ \E i \in 1..Len(tasks) :
       /\ tasks[i].st = "waiting"
       /\ \E outcome \in Outcomes(tasks[i].role) :
            /\ Allowed(tasks[i].role, outcome)
            /\ LET text == ResponseText(tasks[i].role, outcome)
               IN  /\ shared_state' = Fold(tasks[i].role, text, shared_state)
                   /\ tasks' = [tasks EXCEPT ![i].st = "done",
                                             ![i].output = text]
            /\ faults' = IF outcome.kind = "client_error"
                         THEN faults + 1 ELSE faults
  /\ UNCHANGED <<current_hash, cycle, pc, snapshot, final_code, cube_calls,
                 invoked, at_start, h>>

\* a request ends with an exception that is no aiohttp.ClientError (the
\* asyncio.TimeoutError of the session's total timeout, the decoding error
\* of response.json(), the AttributeError of a null "response"): no except
\* clause matches, and it leaves reason_and_act, the await in
\* run_orchestration and asyncio.run
RequestRaises ==
  /\ pc \in {"decide", "gather"}
  /\ cycle <= MaxVaried
  /\ \A j \in 1..Len(tasks) : tasks[j].st # "new"
  /\ \E i \in 1..Len(tasks) : tasks[i].st = "waiting"
  /\ pc' = "request_raised"
  /\ UNCHANGED <<shared_state, current_hash, cycle, tasks, snapshot,
                 final_code, faults, cube_calls, invoked, at_start, h>>

\* what the file holds after json.dump raised in the middle of the write:
\* open(..., 'w') has emptied the file, and a proper prefix of the dump of
\* the state, possibly the empty one, has reached it
PartialDump(state) == [partial_dump_of |-> state]

\* with open(AI_TMP_DIR / "_current_orchestration_state.json", 'w') as f:
\*     json.dump(shared_state, f, indent=2)
\* at the end of a cycle.  The file is written in full and the loop goes
\* on; or open() raises an OSError and the file is as it was; or the write
\* raises an OSError after open() has truncated the file.  No except clause
\* matches an OSError: it leaves run_orchestration.
Dump ==
  \E outcome \in {"written", "open_raised", "write_raised"} :
    CASE outcome = "written" ->
           /\ snapshot' = shared_state
           /\ cycle' = cycle + 1
           /\ pc' = "loop"
      [] outcome = "open_raised" ->
           /\ pc' = "dump_raised"
           /\ UNCHANGED <<snapshot, cycle>>
      [] outcome = "write_raised" ->
           /\ snapshot' = PartialDump(shared_state)
           /\ pc' = "dump_raised"
           /\ UNCHANGED cycle

\* mutant: the results are consumed as soon as the first task is done
Join_Partial ==
  /\ pc = "gather"
  /\ tasks[1].st = "done"
  /\ current_hash' = tasks[1].hash
  /\ Dump
  /\ tasks' = <<>>
  /\ at_start' = EmptyDict
  /\ UNCHANGED <<shared_state, final_code, faults, cube_calls, invoked, h>>

\* mutant: the head is taken from the first result, not from the last
Join_FirstResult ==
  /\ pc = "gather"
  /\ \A j \in 1..Len(tasks) : tasks[j].st = "done"
  /\ current_hash' = tasks[1].hash
  /\ Dump
  /\ tasks' = <<>>
  /\ at_start' = EmptyDict
  /\ UNCHANGED <<shared_state, final_code, faults, cube_calls, invoked, h>>

\* every task of the gather is done: the results are logged in the order
\* the tasks were passed, the last one's hash becomes the head, and the
\* state is dumped to the snapshot file
Join ==
  /\ pc = "gather"
  /\ \A j \in 1..Len(tasks) : tasks[j].st = "done"
  /\ current_hash' = tasks[Len(tasks)].hash
  /\ Dump
  /\ tasks' = <<>>
  /\ at_start' = EmptyDict
  /\ UNCHANGED <<shared_state, final_code, faults, cube_calls, invoked, h>>

Next ==
  \/ CycleStart
  \/ LoopExit
  \/ CubeReturn
  \/ TaskStart
  \/ TaskReturn
  \/ RequestRaises
  \/ Join

Spec == Init /\ [][Next]_vars

\* ------------------------------------------------- folds applied directly
\* FoldSpec adds, to the runs of the engine, the application of a single
\* _process_output to a state and an output text taken from the sets below.
\* the state of a run at the end of its third cycle, when the decisions were
\* EXECUTE, VALIDATE and EXECUTE, the code-producer answered with a fenced
\* block both times and the code-checker rejected the first chunk
RejectedThenReplaced ==
  LET cycle_of(state, decision, role, output) ==
        Fold(role, output,
             Fold("cube", decision,
                  Put(state, "current_entropy_score",
                      calculate_entropy(state))))
      s0 == [status |-> <<"S","T","A","R","T","I","N","G">>, code_chunks |-> EmptyDict,
             validations |-> EmptyDict]
      s1 == cycle_of(s0, TextEXECUTE, "core", <<BT,BT,BT,"p","y","t","h","o","n","\n","x","\n",BT,BT,BT>>)
      s2 == cycle_of(s1, TextVALIDATE, "work", <<"I","N","V","A","L","I","D",":"," ","b","a","d">>)
  IN  cycle_of(s2, TextEXECUTE, "core", <<BT,BT,BT,"p","y","t","h","o","n","\n","x","\n",BT,BT,BT>>)

UnitStates ==
  {RejectedThenReplaced,
   [status |-> <<"S","T","A","R","T","I","N","G">>, code_chunks |-> EmptyDict,
    validations |-> EmptyDict],
   [status |-> <<"S","T","A","R","T","I","N","G">>,
    code_chunks |-> (ChunkId(1) :> <<"x">>),
    validations |-> (ChunkId(1) :> TextVALID),
    last_chunk_id |-> ChunkId(1),
    current_action |-> TextEXECUTE,
    current_entropy_score |-> 0,
    plan |-> <<"R","e","f","i","n","e","m","e","n","t",":"," ","r","e","t","r","y">>,
    advice |-> <<"R","e","f","i","n","e","m","e","n","t",":"," ","r","e","t","r","y">>,
    success_criteria |-> <<"1","."," ","o","k">>,
    resource_management |-> <<"R","E","S","O","U","R","C","E"," ","M","A","N","A","G","E","M","E","N","T"," ","O","K">>,
    prompt_integrity |-> <<"I","N","T","E","G","R","I","T","Y"," ","O","K">>],
   [status |-> <<"S","T","A","R","T","I","N","G">>, code_chunks |-> EmptyDict,
    validations |-> EmptyDict,
    current_action |-> TextPLAN,
    current_entropy_score |-> 230,
    plan |-> <<>>,
    advice |-> <<>>,
    success_criteria |-> <<"1","."," ","o","k">>,
    resource_management |-> <<"R","E","S","O","U","R","C","E"," ","M","A","N","A","G","E","M","E","N","T"," ","O","K">>,
    prompt_integrity |-> <<"I","N","T","E","G","R","I","T","Y"," ","O","K">>]}

UnitOutputs ==
  {TextPLAN, TextCOMPLETE, <<"p","l","a","n">>, <<"C","o","m","p","l","e","t","e">>, <<" ","e","x","e","c","u","t","e","\n">>,
   <<"v","a","l","i","d","a","t","e"," ">>, <<"\t","R","E","F","I","N","E">>, <<"b","a","n","a","n","a">>, <<"P","L","A","N",".">>, <<"C","O","M"," ","P","O","S","E">>, <<>>,
   <<BT,BT,BT,"p","y","t","h","o","n","\n","x","\n",BT,BT,BT>>, <<"s","o","r","r","y">>, TextVALID, <<"I","N","V","A","L","I","D",":"," ","b","a","d">>,
   <<"R","e","f","i","n","e","m","e","n","t",":"," ","r","e","t","r","y">>, <<"W","r","i","t","e"," ","i","t">>, <<"E","X","E","C","U","T","E","\f">>, <<" ","p","l","a","n","">>,
   <<"U+2003","C","O","M","P","L","E","T","E","">>, <<"v","a","l","U+0131","d","a","t","e">>, <<"c","o","m","p","o","U+017F","e">>, <<"r","e","U+FB01","n","e">>,
   <<"V","A","L","U+0130","D","A","T","E">>, <<"s","t","r","a","ß","e">>}

FoldInit ==
  /\ shared_state \in UnitStates
  /\ current_hash = create_genesis_hash(initial_prompt)
  /\ cycle = 1
  /\ pc = "unit"
  /\ tasks = <<>>
  /\ snapshot = EmptyDict
  /\ final_code = <<>>
  /\ faults = 0
  /\ cube_calls = 0
  /\ invoked = <<>>
  /\ at_start = EmptyDict
  /\ h = <<>>

\* agent._process_output(output, state), called once
FoldApply ==
  /\ pc = "unit"
  /\ \E role \in AgentRoles, output \in UnitOutputs :
       /\ shared_state' = Fold(role, output, shared_state)
       /\ h' = [role |-> role, output |-> output, before |-> shared_state]
  /\ pc' = "folded"
  /\ UNCHANGED <<current_hash, cycle, tasks, snapshot, final_code, faults,
                 cube_calls, invoked, at_start>>

FoldNext ==
  \/ Next
  \/ FoldApply

FoldSpec == (Init \/ FoldInit) /\ [][FoldNext]_vars

\* the states of a run of the engine
InRun == pc \notin {"unit", "folded", "estimate", "estimated"}

\* ------------------------------------------------ the estimator on its own
\* EntropySpec applies lines 327-328 of run_orchestration to a state put
\* together from the values below, one choice per field.
IntegrityReports ==
  {EmptyDict,
   "prompt_integrity" :> <<"I","N","T","E","G","R","I","T","Y"," ","O","K">>,
   "prompt_integrity" :> <<"R","e","p","o","r","t",":"," ","I","N","T","E","G","R","I","T","Y"," ","O","K",".">>,
   "prompt_integrity" :> <<"i","n","t","e","g","r","i","t","y"," ","o","k">>,
   "prompt_integrity" :> <<"R","i","s","k",":"," ","i","n","j","e","c","t","i","o","n">>}

ResourceReports ==
  {EmptyDict,
   "resource_management" :> <<"R","E","S","O","U","R","C","E"," ","M","A","N","A","G","E","M","E","N","T"," ","O","K">>,
   "resource_management" :> <<"S","c","o","p","e"," ","c","r","e","e","p">>,
   "resource_management" :> <<"R","e","d","u","c","e"," ","c","o","m","p","l","e","x","i","t","y">>}

Plans ==
  {EmptyDict, "plan" :> <<>>, "plan" :> <<"R","e","f","i","n","e","m","e","n","t",":"," ","r","e","t","r","y">>}

Criteria ==
  {EmptyDict, "success_criteria" :> <<>>, "success_criteria" :> <<"1","."," ","o","k">>}

LastActions ==
  {EmptyDict} \cup {"current_action" :> a : a \in {TextPLAN, TextREFINE, TextEXECUTE}}

ChunkStates ==
  {[code_chunks |-> EmptyDict, validations |-> EmptyDict],
   [code_chunks |-> (ChunkId(1) :> <<"x">>), validations |-> EmptyDict],
   [code_chunks |-> (ChunkId(1) :> <<"x">>),
    validations |-> (ChunkId(1) :> TextVALID)],
   [code_chunks |-> (ChunkId(1) :> <<"x">>),
    validations |-> (ChunkId(1) :> <<"I","N","V","A","L","I","D"," ","-"," ","b","a","d">>)],
   [code_chunks |-> (ChunkId(1) :> <<"x">> @@ ChunkId(2) :> <<"x">>),
    validations |-> (ChunkId(1) :> <<"I","N","V","A","L","I","D"," ","-"," ","b","a","d">>
                       @@ ChunkId(2) :> TextVALID)],
   [code_chunks |-> (ChunkId(1) :> <<"x">> @@ ChunkId(2) :> <<"x">>),
    validations |-> (ChunkId(1) :> <<"I","N","V","A","L","I","D"," ","-"," ","b","a","d">>
                       @@ ChunkId(2) :> <<"I","N","V","A","L","I","D"," ","-"," ","V","A","L","I","D">>)]}

EntropyStates ==
  {("status" :> <<"S","T","A","R","T","I","N","G">>) @@ w @@ i @@ r @@ p @@ c @@ a :
     w \in ChunkStates, i \in IntegrityReports, r \in ResourceReports,
     p \in Plans, c \in Criteria, a \in LastActions}

EntropyInit ==
  /\ shared_state \in EntropyStates
  /\ current_hash = create_genesis_hash(initial_prompt)
  /\ cycle = 1
  /\ pc = "estimate"
  /\ tasks = <<>>
  /\ snapshot = EmptyDict
  /\ final_code = <<>>
  /\ faults = 0
  /\ cube_calls = 0
  /\ invoked = <<>>
  /\ at_start = EmptyDict
  /\ h = <<>>

\* current_entropy_score = calculate_entropy(shared_state);
\* shared_state['current_entropy_score'] = current_entropy_score
Estimate ==
  /\ pc = "estimate"
  /\ LET current_entropy_score == calculate_entropy(shared_state)
     IN  /\ shared_state' = Put(shared_state, "current_entropy_score",
                                current_entropy_score)
         /\ h' = [before |-> shared_state, score |-> current_entropy_score]
  /\ pc' = "estimated"
  /\ UNCHANGED <<current_hash, cycle, tasks, snapshot, final_code, faults,
                 cube_calls, invoked, at_start>>

EntropyNext == Estimate

EntropySpec == EntropyInit /\ [][EntropyNext]_vars

\* ------------------------------------------------ the engine and its parts
\* UnitSpec has the runs of the engine, the folds applied directly and the
\* estimator applied on its own.
UnitNext ==
  \/ FoldNext
  \/ EntropyNext

UnitSpec == (Init \/ FoldInit \/ EntropyInit) /\ [][UnitNext]_vars

\* ----------------------------------------------------------------- claims
\* the vocabulary of decisions, as the specification lists it
Vocabulary ==
  {<<"P","L","A","N">>, <<"E","X","E","C","U","T","E">>, <<"V","A","L","I","D","A","T","E">>, <<"R","E","F","I","N","E">>, <<"C","O","M","P","O","S","E">>,
   <<"C","O","M","P","L","E","T","E">>}

\* the action the engine dispatches on
Decision(state) == Get(state, "current_action", TextPLAN)
Chunks(state) == Get(state, "code_chunks", EmptyDict)
Verdicts(state) == Get(state, "validations", EmptyDict)
LastSet(state) == Has(state, "last_chunk_id")

\* the two dicts agree on every key outside keys
SameExcept(s, t, keys) ==
  /\ (DOMAIN s) \ keys = (DOMAIN t) \ keys
  /\ \A k \in (DOMAIN s) \ keys : s[k] = t[k]

\* a run has ended otherwise than by an exception leaving a request
Ended == pc \in {"done", "dump_raised"}

\* C1: the decision-maker is invoked at most 10 times, and a run that ends
\* without a COMPLETE decision has gone through exactly 10 cycles and printed
\* final_script if there is one and the placeholder otherwise.
C1_CycleCap ==
  InRun =>
    /\ cube_calls <= 10
    /\ (Ended /\ Decision(shared_state) # <<"C","O","M","P","L","E","T","E">>) =>
         /\ pc = "done"
         /\ cube_calls = 10
         /\ cycle = 11
         /\ final_code = IF Has(shared_state, "final_script")
                         THEN shared_state["final_script"]
                         ELSE <<"#"," ","C","o","m","p","o","s","i","t","i","o","n"," ","f","a","i","l","e","d","."," ","N","o"," ","f","i","n","a","l"," ","s","c","r","i","p","t"," ","w","a","s"," ","g","e","n","e","r","a","t","e","d",".">>

\* C2: a COMPLETE decision ends the loop in the step that takes it, with no
\* role started and no task created in that cycle and the cycle counter
\* left alone; once the decision is COMPLETE, the state, the chain head, the
\* cycle counter and the roles started never change again.
C2_CompleteIsTerminal ==
  /\ [][(pc = "decide" /\ pc' # "request_raised"
           /\ Decision(shared_state') = <<"C","O","M","P","L","E","T","E">>)
          => (pc' = "done" /\ cycle' = cycle /\ tasks' = <<>>
                /\ invoked' = <<>>)]_vars
  /\ [][(InRun /\ pc # "decide" /\ Decision(shared_state) = <<"C","O","M","P","L","E","T","E">>)
          => UNCHANGED <<shared_state, current_hash, cycle, tasks, invoked,
                         cube_calls>>]_vars

C2_Witness ==
  /\ pc = "done"
  /\ Decision(shared_state) = <<"C","O","M","P","L","E","T","E">>
  /\ cycle = 3
  /\ Chunks(shared_state) # EmptyDict

\* the transition table of the specification: the roles of a cycle, for the
\* decision taken and for whether a chunk is pending
RolesOf(action, pending) ==
  CASE action = <<"P","L","A","N">> -> {"wave", "loop", "line", "coin"}
    [] action = <<"E","X","E","C","U","T","E">> -> {"core"}
    [] action = <<"V","A","L","I","D","A","T","E">> -> IF pending THEN {"work"} ELSE {}
    [] action = <<"R","E","F","I","N","E">> -> {"loop"}
    [] action = <<"C","O","M","P","O","S","E">> -> {"code"}
    [] OTHER -> {}

Range(seq) == {seq[i] : i \in 1..Len(seq)}
NoRepeat(seq) == Cardinality(Range(seq)) = Len(seq)

\* C3: in a cycle whose decision is not COMPLETE, the tasks awaited are those
\* of the table's roles, no role is started twice or from outside the table's
\* set, and once the cycle is over every role of the set has been started.
C3_RolesFollowTable ==
  LET expected == RolesOf(Decision(shared_state), LastSet(shared_state))
  IN  /\ pc = "gather" =>
           /\ Range([i \in 1..Len(tasks) |-> tasks[i].role]) = expected
           /\ Len(tasks) = Cardinality(expected)
           /\ Range(invoked) \subseteq expected
           /\ NoRepeat(invoked)
      /\ ((pc = "loop" /\ cycle > 1) \/ pc = "dump_raised") =>
           /\ Range(invoked) = expected
           /\ NoRepeat(invoked)

C3_Witness ==
  /\ pc = "loop"
  /\ Decision(shared_state) = <<"P","L","A","N">>
  /\ Len(invoked) = 4

\* C4 as amended: the fold sets current_action to the vocabulary word that
\* the output becomes once surrounding whitespace is trimmed and the rest is
\* put in upper case, and to PLAN when it becomes none; in a run, from the
\* first decision on, current_action is set and is a word of the vocabulary,
\* also when tasks are dispatched.
C4_ActionClamp ==
  /\ (pc = "folded" /\ h.role = "cube") =>
       LET hits == {w \in Vocabulary : Upper(Strip(h.output)) = w}
       IN  /\ hits # {} => shared_state["current_action"] \in hits
           /\ hits = {} => shared_state["current_action"] = <<"P","L","A","N">>
           /\ SameExcept(h.before, shared_state, {"current_action"})
  /\ (InRun /\ (cycle > 1 \/ pc \in {"gather", "done", "dump_raised"})) =>
       /\ Has(shared_state, "current_action")
       /\ shared_state["current_action"] \in Vocabulary
  /\ (InRun /\ Has(shared_state, "current_action")) =>
       shared_state["current_action"] \in Vocabulary

\* C4 as stated: an output that is not a vocabulary word up to case alone
\* is always folded to PLAN.
C4_Original ==
  (pc = "folded" /\ h.role = "cube"
     /\ ~ \E w \in Vocabulary : Lower(h.output) = Lower(w))
    => shared_state["current_action"] = <<"P","L","A","N">>

C4_Witness ==
  /\ pc = "folded"
  /\ h.role = "cube"
  /\ h.output = <<"b","a","n","a","n","a">>
  /\ Get(h.before, "current_action", <<>>) = <<"E","X","E","C","U","T","E">>
  /\ shared_state["current_action"] = <<"P","L","A","N">>

\* f"chunk_{n}" for n in 1..9, spelled out
ChunkName(n) == <<"c","h","u","n","k","_">> \o <<(<<"1","2","3","4","5","6","7","8","9">>)[n]>>

\* a step in which the code-producer's fold receives an output with the
\* fence marker
FencedCoreFold ==
  /\ pc = "gather"
  /\ tasks[1].role = "core"
  /\ tasks[1].st # "done"
  /\ tasks'[1].st = "done"
  /\ Contains(<<BT,BT,BT,"p","y","t","h","o","n">>, tasks'[1].output)

\* C5: code_chunks holds the ids chunk_1..chunk_N, last_chunk_id is chunk_N
\* and is unset when there is none; a fenced code-producer fold adds chunk_N+1
\* and only that, every other step leaves code_chunks and last_chunk_id
\* alone, and no entry is ever overwritten or removed.
C5_ChunkIds ==
  /\ [](LET n == Cardinality(DOMAIN Chunks(shared_state))
        IN  /\ DOMAIN Chunks(shared_state) = {ChunkName(i) : i \in 1..n}
            /\ LastSet(shared_state) <=> n > 0
            /\ n > 0 => shared_state["last_chunk_id"] = ChunkName(n))
  /\ [][LET old == Chunks(shared_state)
            new == Chunks(shared_state')
            n == Cardinality(DOMAIN old)
        IN  /\ \A k \in DOMAIN old : k \in DOMAIN new /\ new[k] = old[k]
            /\ IF FencedCoreFold
               THEN /\ DOMAIN new = (DOMAIN old) \cup {ChunkName(n + 1)}
                    /\ ChunkName(n + 1) \notin DOMAIN old
                    /\ shared_state'["last_chunk_id"] = ChunkName(n + 1)
               ELSE /\ new = old
                    /\ Get(shared_state', "last_chunk_id", <<>>)
                         = Get(shared_state, "last_chunk_id", <<>>)]_vars

C5_Witness ==
  /\ DOMAIN Chunks(shared_state) = {ChunkName(1), ChunkName(2)}
  /\ shared_state["last_chunk_id"] = ChunkName(2)
  /\ pc = "gather"
  /\ cycle = 2
  /\ tasks[1].role = "core"
  /\ tasks[1].st = "done"
  /\ Contains(<<BT,BT,BT,"p","y","t","h","o","n">>, tasks[1].output)

\* C6: every key of validations is a key of code_chunks.
C6_VerdictsHaveChunks ==
  InRun => DOMAIN Verdicts(shared_state) \subseteq DOMAIN Chunks(shared_state)

C6_Witness ==
  /\ pc = "gather"
  /\ tasks[1].role = "work"
  /\ tasks[1].st = "done"
  /\ DOMAIN Verdicts(shared_state) = {ChunkName(1)}
  /\ DOMAIN Chunks(shared_state) = {ChunkName(1)}

\* the chunks in the prompt a started composer task rendered
Handed(t) == t.hash.thought.chunks

\* C7: the chunks the composer's prompt carries are chunks of code_chunks
\* whose verdict is exactly VALID, and what the composer's fold stores in
\* final_script is cut out of the composer's output.
C7_AssemblerGating ==
  (pc = "gather" /\ tasks[1].role = "code" /\ tasks[1].st # "new") =>
    /\ \A k \in DOMAIN Handed(tasks[1]) :
         /\ k \in DOMAIN Verdicts(shared_state)
         /\ Verdicts(shared_state)[k] = <<"V","A","L","I","D">>
         /\ k \in DOMAIN Chunks(shared_state)
         /\ Handed(tasks[1])[k] = Chunks(shared_state)[k]
    /\ (tasks[1].st = "done" /\ Contains(<<BT,BT,BT,"p","y","t","h","o","n">>, tasks[1].output)) =>
         shared_state["final_script"] = ExtractFenced(tasks[1].output)

C7_Witness ==
  /\ pc = "gather"
  /\ tasks[1].role = "code"
  /\ tasks[1].st = "done"
  /\ Has(shared_state, "final_script")
  /\ DOMAIN Handed(tasks[1]) = {ChunkName(1)}
  /\ Verdicts(shared_state)[ChunkName(1)] = <<"V","A","L","I","D">>

\* C8: the step that takes the decision VALIDATE while last_chunk_id is
\* unset creates no task and starts no role, raises nothing, leaves every
\* field but current_action and current_entropy_score as it was when the
\* cycle started, leaves the chain head at the decision-maker's fingerprint
\* and goes on to the next cycle.
C8_SkipValidate ==
  [][(pc = "decide" /\ pc' # "request_raised"
        /\ Decision(shared_state') = <<"V","A","L","I","D","A","T","E">>
        /\ ~LastSet(shared_state'))
       => /\ pc' = "loop"
          /\ cycle' = cycle + 1
          /\ tasks' = <<>>
          /\ invoked' = <<>>
          /\ SameExcept(at_start, shared_state',
                        {"current_action", "current_entropy_score"})
          /\ current_hash' = tasks[1].hash
          /\ UNCHANGED <<snapshot, final_code>>]_vars

C8_Witness ==
  /\ pc = "loop"
  /\ cycle = 3
  /\ Decision(shared_state) = <<"V","A","L","I","D","A","T","E">>
  /\ ~LastSet(shared_state)
  /\ Has(shared_state, "plan")
  /\ invoked = <<>>

\* C9: no failure of a request ends the run.
C9_NoRequestAbort == pc # "request_raised"

\* C10: no failure of the snapshot write ends the run.
C10_NoDumpAbort == pc # "dump_raised"

\* the role subset's state before any of its folds: the state the cycle
\* started with, the stored score and the decision
PreFanout ==
  Put(Put(at_start, "current_entropy_score", calculate_entropy(at_start)),
      "current_action", Decision(shared_state))

\* C11: in a cycle's gather, the first role's fingerprint is chained to the
\* decision-maker's fingerprint and every later role's fingerprint is chained
\* to the fingerprint of the role before it, over that role's name and its
\* rendered instruction.
C11_ChainLinks ==
  pc = "gather" =>
    \A i \in 1..Len(tasks) :
      tasks[i].st # "new" =>
        /\ tasks[i].hash.agent = AgentName(tasks[i].role)
        /\ tasks[i].hash.origin =
             (IF i = 1 THEN current_hash ELSE tasks[i - 1].hash)

\* C12: whatever the order in which the requests of a gather are issued and
\* end, the instruction a started role has rendered is the one rendered from
\* the state as it was before any fold of the cycle's role subset.
C12_RenderIsolation ==
  pc = "gather" =>
    \A i \in 1..Len(tasks) :
      tasks[i].st # "new" =>
        tasks[i].hash.thought = Render(tasks[i].role, initial_prompt, PreFanout)

\* a role of the running gather has not completed its request and its fold
Unfinished == \E i \in 1..Len(tasks) : tasks[i].st # "done"

\* C13: while a role of the cycle's subset has not completed, no step moves
\* the chain head, writes the snapshot, advances the cycle, recomputes the
\* entropy or invokes the decision-maker; outside a gather no role is
\* running.  A run waiting for a role that never completes takes no further
\* step of the engine.
C13_JoinBarrier ==
  /\ [][(pc = "gather" /\ Unfinished)
          => /\ UNCHANGED <<current_hash, snapshot, cycle, cube_calls,
                            final_code>>
             /\ shared_state'["current_entropy_score"]
                  = shared_state["current_entropy_score"]
             /\ pc' \in {"gather", "request_raised"}]_vars
  /\ []((pc \in {"loop", "done", "dump_raised"}) => tasks = <<>>)

C13_Witness ==
  /\ pc = "gather"
  /\ Len(tasks) = 4
  /\ tasks[1].st = "waiting"
  /\ tasks[2].st = "done"
  /\ tasks[3].st = "done"
  /\ tasks[4].st = "done"
  /\ current_hash.agent = AgentName("cube")
  /\ cycle = 2

\* a step of a gather in which the task of role ends with an output that
\* lacks the fence marker
UnfencedReturn(role) ==
  /\ pc = "gather"
  /\ tasks[1].role = role
  /\ tasks[1].st # "done"
  /\ tasks'[1].st = "done"
  /\ ~Contains(<<BT,BT,BT,"p","y","t","h","o","n">>, tasks'[1].output)

\* C14: a code-producer fold or an assembler fold on an output without the
\* fence marker returns the state it was given, field for field; in a run the
\* step in which such an output arrives changes no field, raises nothing and
\* leaves the cycle in its gather, from where it is joined.
C14_UnfencedDropped ==
  /\ []((pc = "folded" /\ h.role \in {"core", "code"}
           /\ ~Contains(<<BT,BT,BT,"p","y","t","h","o","n">>, h.output))
          => shared_state = h.before)
  /\ [][(UnfencedReturn("core") \/ UnfencedReturn("code"))
          => /\ shared_state' = shared_state
             /\ pc' = "gather"
             /\ \A i \in 1..Len(tasks') : tasks'[i].st = "done"]_vars

C14_Witness ==
  /\ pc = "folded"
  /\ h.role = "code"
  /\ h.output = <<"s","o","r","r","y">>
  /\ Has(h.before, "last_chunk_id")
  /\ ~Has(shared_state, "final_script")

\* C15: at the start of every cycle after the first, the snapshot file holds
\* the state as it stood at the end of the cycle before, also when that
\* cycle ran no role.
C15_SnapshotEveryCycle ==
  (pc = "loop" /\ cycle > 1) => snapshot = shared_state

\* d without the key k
Without(d, k) == [x \in (DOMAIN d) \ {k} |-> d[x]]

\* verdicts as Work._process_output stores them for a rejected chunk
InvalidVerdicts == {<<"I","N","V","A","L","I","D"," ","-"," ","b","a","d">>, <<"I","N","V","A","L","I","D"," ","-"," ","E","r","r","o","r",":"," ","x">>}

\* C16: the score is never negative; one more entry of validations with an
\* invalid verdict, everything else equal, raises the score by the penalty
\* of one invalid chunk; an empty plan (or none) in place of a non-empty one,
\* everything else equal, raises the score by the penalty of a missing plan.
\* Scores are compared at the two decimals calculate_entropy rounds to.
C16_EntropyMonotone ==
  pc = "estimated" =>
    LET s == h.before
        validations == s["validations"]
    IN  /\ h.score >= 0
        /\ \A k \in {ChunkId(n) : n \in 1..3} \ DOMAIN validations :
             \A verdict \in InvalidVerdicts :
               LET more == Put(s, "validations", Put(validations, k, verdict))
               IN  /\ calculate_entropy(more) = h.score + PenaltyInvalidChunk
                   /\ calculate_entropy(more) >= h.score
        /\ (Has(s, "plan") /\ Len(s["plan"]) > 0) =>
             /\ calculate_entropy(Put(s, "plan", <<>>))
                  = h.score + PenaltyNoPlan
             /\ calculate_entropy(Without(s, "plan"))
                  = h.score + PenaltyNoPlan
             /\ PenaltyNoPlan > 0

C16_Witness ==
  /\ pc = "estimated"
  /\ Len(Get(h.before, "plan", <<>>)) > 0
  /\ InvalidKeys(h.before["validations"]) = {ChunkId(1)}
  /\ DOMAIN h.before["validations"] = {ChunkId(1), ChunkId(2)}
  /\ h.score = PenaltyInvalidChunk + PenaltyIntegrity + PenaltyScopeUnmanaged

\* what the estimator charges a state for its integrity report: the score
\* less the score of the same state with a report that is the marker
IntegrityCharge(s) ==
  calculate_entropy(s)
    - calculate_entropy(Put(s, "prompt_integrity", <<"I","N","T","E","G","R","I","T","Y"," ","O","K">>))

\* C17: the integrity penalty is charged exactly when the state holds an
\* integrity report and the report does not contain the marker; a state
\* without a report is charged nothing.
C17_IntegrityPenalty ==
  pc = "estimated" =>
    LET s == h.before
        charged == Has(s, "prompt_integrity")
                     /\ ~Contains(<<"I","N","T","E","G","R","I","T","Y"," ","O","K">>, s["prompt_integrity"])
    IN  /\ charged => IntegrityCharge(s) = PenaltyIntegrity
        /\ ~charged => IntegrityCharge(s) = 0

\* C18: a plan-advisor fold sets plan to the output exactly when the state
\* has no plan (none, or an empty one) or the output contains "refinement" in
\* whatever case, sets advice to the output and changes nothing else.
C18_PlanAdvisorFold ==
  (pc = "folded" /\ h.role = "loop") =>
    LET noplan == ~Has(h.before, "plan") \/ Len(h.before["plan"]) = 0
        signals == Contains(<<"r","e","f","i","n","e","m","e","n","t">>, Lower(h.output))
    IN  /\ (noplan \/ signals) => shared_state["plan"] = h.output
        /\ ~(noplan \/ signals) => shared_state["plan"] = h.before["plan"]
        /\ shared_state["advice"] = h.output
        /\ SameExcept(h.before, shared_state, {"plan", "advice"})

\* the state with another score in it
WithScore(s, x) == Put(s, "current_entropy_score", x)
OtherScores == {0, 7}

\* the texts a role's fold can receive
TextsOf ==
  [role \in AgentRoles |-> {ResponseText(role, o) : o \in Outcomes(role)}]
Texts(role) == TextsOf[role]

\* the roles whose rendered instruction does not depend on the score
ScoreBlind(roles) ==
  \A x \in OtherScores : \A role \in roles :
    Render(role, initial_prompt, WithScore(shared_state, x))
      = Render(role, initial_prompt, shared_state)

\* folds of role commute with a change of the score
FoldsAlike(role, s, x) ==
  \A text \in Texts(role) :
    Fold(role, text, WithScore(s, x)) = WithScore(Fold(role, text, s), x)

\* C19 as amended: the score is no gate.  From two states that differ in the
\* score alone, whatever the engine does next comes out the same: at the top
\* of the loop the same next score and the same final answer, at the decision
\* the same action and the same roles for it, in a gather folds that lead to
\* states that again differ in the score alone; so two runs fed the same
\* outputs take the same steps and end in the same state apart from the
\* score.  The score reaches the rendered instructions of the
\* decision-maker, the plan-advisor, the scope-auditor and the
\* integrity-auditor, and no other: for the other roles of a gather the
\* instruction rendered from the state is the same whatever the score.
C19_ScoreIsNoGate ==
  /\ \A x \in OtherScores :
       LET s == shared_state
           t == WithScore(shared_state, x)
       IN  /\ pc = "loop" =>
                /\ calculate_entropy(t) = calculate_entropy(s)
                /\ FinalCode(t) = FinalCode(s)
           /\ pc = "decide" =>
                /\ FoldsAlike("cube", s, x)
                /\ \A a \in ActionWords :
                     /\ TasksFor(a, t) = TasksFor(a, s)
                     /\ AfterDecision(a, TasksFor(a, t))
                          = AfterDecision(a, TasksFor(a, s))
           /\ pc = "gather" =>
                \A i \in 1..Len(tasks) :
                  tasks[i].st # "done" => FoldsAlike(tasks[i].role, s, x)
  /\ pc = "gather" =>
       ScoreBlind({tasks[i].role : i \in 1..Len(tasks)}
                    \cap {"wave", "core", "work", "code"})

\* C19 as stated: the score reaches the decision-maker's rendered
\* instruction only.
C19_Original == InRun => ScoreBlind(AgentRoles \ {"cube"})

C19_Witness ==
  /\ pc = "gather"
  /\ cycle = 2
  /\ Decision(shared_state) = <<"P","L","A","N">>
  /\ tasks[2].st = "waiting"
  /\ shared_state["current_entropy_score"] \notin OtherScores
  /\ tasks[2].hash.thought
       # Render("loop", initial_prompt, WithScore(PreFanout, 0))
  /\ tasks[1].hash.thought
       = Render("wave", initial_prompt, WithScore(PreFanout, 0))

\* the last role of the table's subset for an action, in the order the
\* specification lists the roles
LastOf(action) ==
  CASE action = <<"P","L","A","N">> -> "coin"
    [] action = <<"E","X","E","C","U","T","E">> -> "core"
    [] action = <<"V","A","L","I","D","A","T","E">> -> "work"
    [] action = <<"R","E","F","I","N","E">> -> "loop"
    [] action = <<"C","O","M","P","O","S","E">> -> "code"

\* C20: the step that ends a cycle which ran roles sets the head to the
\* fingerprint of the last role of the subset in its listed order, the one
\* that role computed from the decision-maker's fingerprint, its name and
\* the instruction it rendered, whatever the order in which the roles
\* completed; the next decision-maker's fingerprint is chained to that head;
\* no step of a role moves the head.
C20_HeadIsLastRole ==
  /\ [][(pc = "gather" /\ pc' = "loop")
          => LET last == LastOf(Decision(shared_state))
             IN  /\ \E i \in 1..Len(tasks) :
                      /\ tasks[i].role = last
                      /\ current_hash' = tasks[i].hash
                 /\ current_hash'.origin = current_hash
                 /\ current_hash'.agent = AgentName(last)
                 /\ Len(tasks) = 1 =>
                      current_hash'.thought
                        = Render(last, initial_prompt, PreFanout)]_vars
  /\ [][(pc = "gather" /\ pc' \in {"gather", "request_raised"})
          => current_hash' = current_hash]_vars
  /\ [](pc = "decide" =>
          /\ tasks[1].origin = current_hash
          /\ tasks[1].hash.origin = current_hash)

C20_Witness ==
  /\ pc = "decide"
  /\ cycle = 3
  /\ at_start["current_action"] = <<"P","L","A","N">>
  /\ current_hash.agent = AgentName("coin")
  /\ current_hash.origin.agent = AgentName("cube")
  /\ tasks[1].hash.origin.agent = AgentName("coin")

\* the fields a PLAN role's fold writes
WrittenBy(role) ==
  CASE role = "wave" -> {"success_criteria"}
    [] role = "loop" -> {"plan", "advice"}
    [] role = "line" -> {"resource_management"}
    [] role = "coin" -> {"prompt_integrity"}

\* the folds of the tasks done so far, applied to state in the order the
\* tasks were passed to the gather
RECURSIVE FoldedInOrder(_, _)
FoldedInOrder(n, state) ==
  IF n = 0 THEN state
  ELSE LET before == FoldedInOrder(n - 1, state)
       IN  IF tasks[n].st = "done"
           THEN Fold(tasks[n].role, tasks[n].output, before)
           ELSE before

\* C21: at every point of a PLAN cycle's gather, whatever the order in which
\* the roles completed so far, the state is the one obtained by folding the
\* outputs of the completed roles in the listed order into the state the
\* gather started from; and the step in which a role completes changes only
\* the fields of that role, which are fields of no other role of the subset.
C21_PlanFoldsCommute ==
  /\ []((pc = "gather" /\ Decision(shared_state) = <<"P","L","A","N">>)
          => shared_state = FoldedInOrder(Len(tasks), PreFanout))
  /\ [][(pc = "gather" /\ pc' = "gather"
           /\ Decision(shared_state) = <<"P","L","A","N">>)
          => \A i \in 1..Len(tasks) :
               (tasks[i].st # "done" /\ tasks'[i].st = "done")
                 => SameExcept(shared_state, shared_state',
                               WrittenBy(tasks[i].role))]_vars
  /\ \A r1, r2 \in {"wave", "loop", "line", "coin"} :
       r1 # r2 => WrittenBy(r1) \cap WrittenBy(r2) = {}

C21_Witness ==
  /\ pc = "gather"
  /\ Decision(shared_state) = <<"P","L","A","N">>
  /\ cycle = 2
  /\ tasks[1].st = "waiting"
  /\ tasks[2].st = "done"
  /\ tasks[3].st = "waiting"
  /\ tasks[4].st = "done"
  /\ shared_state["plan"] # tasks[2].output
  /\ shared_state["advice"] = tasks[2].output

\* the verdict of chunk k, or the empty text when it has none
VerdictOf(state, k) == Get(Verdicts(state), k, <<>>)

\* the state with the invalid verdicts taken out of validations
WithoutInvalid(s) ==
  LET v == s["validations"]
  IN  Put(s, "validations", [k \in (DOMAIN v) \ InvalidKeys(v) |-> v[k]])

\* C22: of validations, a code-checker fold writes the entry keyed by
\* last_chunk_id and no other (outside validations it writes advice, on a
\* rejection, and nothing else); in every step the verdict of every chunk
\* other than the last one stays what it was, none included; and the score
\* stored at the start of a cycle carries one invalid-chunk penalty for every
\* invalid verdict in validations, superseded chunks included.
C22_VerdictsOfOldChunksStay ==
  /\ [][\A k \in DOMAIN Chunks(shared_state') :
          k # Get(shared_state', "last_chunk_id", <<>>)
            => VerdictOf(shared_state', k) = VerdictOf(shared_state, k)]_vars
  /\ [][(\/ /\ pc = "gather" /\ pc' = "gather" /\ tasks[1].role = "work"
             /\ tasks[1].st # "done" /\ tasks'[1].st = "done"
          \/ /\ pc = "unit" /\ pc' = "folded" /\ h'.role = "work"
             /\ LastSet(shared_state))
          => /\ SameExcept(shared_state, shared_state',
                           {"validations", "advice"})
             /\ DOMAIN Verdicts(shared_state')
                  = DOMAIN Verdicts(shared_state)
                      \cup {shared_state["last_chunk_id"]}]_vars
  /\ [](pc = "decide" =>
          shared_state["current_entropy_score"]
              - calculate_entropy(WithoutInvalid(at_start))
            = Cardinality(InvalidKeys(Verdicts(shared_state)))
                * PenaltyInvalidChunk)
  /\ [](pc = "estimated" =>
          h.score - calculate_entropy(WithoutInvalid(h.before))
            = Cardinality(InvalidKeys(Verdicts(h.before)))
                * PenaltyInvalidChunk)

C22_Witness ==
  /\ pc = "folded"
  /\ h.role = "work"
  /\ h.before = RejectedThenReplaced
  /\ DOMAIN Chunks(shared_state) = {ChunkName(1), ChunkName(2)}
  /\ h.before["last_chunk_id"] = ChunkName(2)
  /\ InvalidKeys(Verdicts(h.before)) = {ChunkName(1)}
  /\ VerdictOf(shared_state, ChunkName(1)) = VerdictOf(h.before, ChunkName(1))
  /\ VerdictOf(shared_state, ChunkName(2)) = <<"V","A","L","I","D">>
====
